---- MODULE Spec2Model ----
(***************************************************************************)
(* Model of MNIST_test/compare2.py: the transfer-learning comparison       *)
(* script.  An image is irrelevant to every property below, so a labelled  *)
(* example is represented by its label; a dataset is the sequence of the   *)
(* labels of its items, indexed from 0 as in Python.                       *)
(***************************************************************************)
EXTENDS Integers, Sequences, FiniteSets, TLC

(* ------------------------------ bounds --------------------------------- *)
\* Length of the exhaustively enumerated raw datasets.
ShortLen == 1
\* Length of the periodic raw datasets (long enough to fill every cap).
LongLen == 36
\* Per-label cap of the small training set (indices[:20] in the script).
SmallCap == 2
\* Per-label cap of the test set (indices[:200] in the script).
TestCap == 7
\* num_runs and num_epochs, the arguments of run_experiment (10 and 10 in
\* the script, lines 229-230).
NumRuns == 2
NumEpochs == 2
\* Length of the raw datasets of the whole-script specification.
MainLen == 6
\* Largest raw dataset behind the streams a direct caller of train_model or
\* test_model passes.
HarnessLen == 5
\* Largest value of a parameter (a parameter's value is one of 0..MaxValue).
MaxValue == 1

(* --------------------------- program constants ------------------------- *)
Labels == 0..9
EvenLabels == <<0, 2, 4, 6, 8>>
OddLabels == <<1, 3, 5, 7, 9>>
even_label_map == (0 :> 0) @@ (2 :> 1) @@ (4 :> 2) @@ (6 :> 3) @@ (8 :> 4)
odd_label_map_short == (1 :> 0) @@ (3 :> 1) @@ (5 :> 2) @@ (7 :> 3)
odd_label_map == (1 :> 0) @@ (3 :> 1) @@ (5 :> 2) @@ (7 :> 3) @@ (9 :> 4)

\* batch_size of the three loaders (lines 74-76).
BigBatch == 128
SmallBatch == 2
TestBatch == 32

Min(a, b) == IF a <= b THEN a ELSE b
Range(s) == {s[k] : k \in 1..Len(s)}

(* ------------------------------ datasets ------------------------------- *)
\* Dataset objects.  Every kind carries the same fields; the unused ones
\* are empty.
None == [kind |-> "None", labels |-> <<>>, dataset |-> <<>>, indices |-> <<>>,
         label_map |-> <<>>]
MNIST(labels) == [kind |-> "MNIST", labels |-> labels, dataset |-> <<>>,
                  indices |-> <<>>, label_map |-> <<>>]
Subset(dataset, indices) == [kind |-> "Subset", labels |-> <<>>,
                             dataset |-> dataset, indices |-> indices,
                             label_map |-> <<>>]
RemapLabelsDataset(dataset, label_map) ==
    [kind |-> "Remap", labels |-> <<>>, dataset |-> dataset,
     indices |-> <<>>, label_map |-> label_map]

\* len(dataset)
RECURSIVE DsLen(_)
DsLen(ds) ==
    CASE ds.kind = "MNIST" -> Len(ds.labels)
      [] ds.kind = "Subset" -> Len(ds.indices)
      [] ds.kind = "Remap" -> DsLen(ds.dataset)
      [] OTHER -> 0

\* The result of dataset[idx]: the label of the item, or the error raised.
Item(label) == [err |-> "none", label |-> label]
Raised(e) == [err |-> e, label |-> -1]

\* dataset[idx]
RECURSIVE GetItem(_, _)
GetItem(ds, idx) ==
    CASE ds.kind = "MNIST" ->
           IF idx >= 0 /\ idx < Len(ds.labels)
           THEN Item(ds.labels[idx + 1]) ELSE Raised("IndexError")
      [] ds.kind = "Subset" ->
           IF idx >= 0 /\ idx < Len(ds.indices)
           THEN GetItem(ds.dataset, ds.indices[idx + 1])
           ELSE Raised("IndexError")
      [] ds.kind = "Remap" ->
           LET inner == GetItem(ds.dataset, idx)
           IN  IF inner.err # "none" THEN inner
               ELSE IF inner.label \in DOMAIN ds.label_map
                    THEN Item(ds.label_map[inner.label])
                    ELSE Raised("KeyError")
      [] OTHER -> Raised("TypeError")

\* [i for i, (img, lbl) in enumerate(ds) if lbl in wanted], from position i.
RECURSIVE IndicesWhere(_, _, _)
IndicesWhere(ds, wanted, i) ==
    IF i >= DsLen(ds) THEN <<>>
    ELSE (IF GetItem(ds, i).label \in wanted THEN <<i>> ELSE <<>>)
         \o IndicesWhere(ds, wanted, i + 1)

\* indices[:cap]
SliceTo_off(indices, cap) == SubSeq(indices, 1, Min(cap + 1, Len(indices)))
SliceTo(indices, cap) == SubSeq(indices, 1, Min(cap, Len(indices)))

\* for label in labels: indices = [...]; result.extend(indices[:cap])
RECURSIVE CappedIndices(_, _, _)
CappedIndices(ds, labels, cap) ==
    IF labels = <<>> THEN <<>>
    ELSE SliceTo(IndicesWhere(ds, {Head(labels)}, 0), cap)
         \o CappedIndices(ds, Tail(labels), cap)

(* ------------------------------- state --------------------------------- *)
VARIABLES
    pc,                 \* position of the script
    caller,             \* who called train_model / test_model
    err,                \* the exception that ended the process, or "none"
    returned,           \* results handed back to a direct caller
    full_train_dataset, big_train_dataset, small_train_dataset, test_dataset,
    item,               \* result of the last dataset[idx] of a direct caller
    model,              \* the MNISTNet object: layer name -> parameter object
    param,              \* parameter object -> [value, requires_grad, grad]
    optimizer,          \* the parameter objects the optimizer is bound to
    hits,               \* per-item outcomes the network produces in this run
    memo,               \* the network function, at the points evaluated so far
    call,               \* arguments of the running train_model / test_model
    epoch, batch, epoch_loss, correct, total, nhit,
    train_losses, train_accuracies,
    model_type, run, losses, accuracies, accuracy,
    all_accuracies, all_losses, results,
    trace,              \* history of the steps of the run under way
    handlers,           \* logger name -> its file handlers, in order added
    files,              \* log file -> its lines
    images, saved       \* image files and array files written

dataVars == <<full_train_dataset, big_train_dataset, small_train_dataset,
              test_dataset, item>>
netVars == <<model, param, optimizer, hits, memo>>
localVars == <<call, epoch, batch, epoch_loss, correct, total, nhit,
               train_losses, train_accuracies>>
runVars == <<model_type, run, losses, accuracies, accuracy, all_accuracies,
             all_losses, results, trace>>
fsVars == <<handlers, files, images, saved>>
ctlVars == <<caller, err, returned>>
vars == <<pc, ctlVars, dataVars, netVars, localVars, runVars, fsVars>>

(* ----------------------- startup: lines 29 - 76 ------------------------ *)
\* Line 37: positions of the even-labelled items, in dataset order.
train_indices == IndicesWhere(full_train_dataset, Range(EvenLabels), 0)
\* Lines 41-44.
small_train_indices == CappedIndices(full_train_dataset, OddLabels, SmallCap)
\* Lines 48-51.
test_indices == CappedIndices(test_dataset, OddLabels, TestCap)

SelectBig ==
    /\ pc = "L37"
    /\ big_train_dataset' = Subset(full_train_dataset, train_indices)
    /\ pc' = "L41"
    /\ UNCHANGED <<full_train_dataset, small_train_dataset, test_dataset, item,
                   ctlVars, netVars, localVars, runVars, fsVars>>

SelectSmall ==
    /\ pc = "L41"
    /\ small_train_dataset' = Subset(full_train_dataset, small_train_indices)
    /\ pc' = "L48"
    /\ UNCHANGED <<full_train_dataset, big_train_dataset, test_dataset, item,
                   ctlVars, netVars, localVars, runVars, fsVars>>

SelectTest ==
    /\ pc = "L48"
    /\ test_dataset' = Subset(test_dataset, test_indices)
    /\ pc' = "L69"
    /\ UNCHANGED <<full_train_dataset, big_train_dataset, small_train_dataset,
                   item, ctlVars, netVars, localVars, runVars, fsVars>>

\* Lines 69-76: the three wrappers (the loaders hold no state of their own).
Wrap ==
    /\ pc = "L69"
    /\ big_train_dataset' = RemapLabelsDataset(big_train_dataset, even_label_map)
    /\ small_train_dataset' =
           RemapLabelsDataset(small_train_dataset, odd_label_map)
    /\ test_dataset' = RemapLabelsDataset(test_dataset, odd_label_map)
    /\ pc' = "L234"
    /\ UNCHANGED <<full_train_dataset, item, ctlVars, netVars, localVars,
                   runVars, fsVars>>

NoItem == [err |-> "unset", label |-> -1]
NoError == [type |-> "none", at |-> "none"]

\* A direct item access, dataset[idx], on one of the wrapped datasets.
ReadItem ==
    /\ pc = "L234"
    /\ caller = "harness"
    /\ item = NoItem
    /\ \E ds \in {big_train_dataset, small_train_dataset, test_dataset} :
         \E idx \in 0..(DsLen(ds) - 1) : item' = GetItem(ds, idx)
    /\ UNCHANGED <<pc, full_train_dataset, big_train_dataset,
                   small_train_dataset, test_dataset, ctlVars, netVars,
                   localVars, runVars, fsVars>>

\* Raw label sequences: every short one, and periodic long ones.
Periodic(a, b, n) == [i \in 1..n |-> (a * i + b) % 10]
RawInputs ==
    UNION {[1..n -> Labels] : n \in 0..ShortLen}
    \cup {Periodic(a, b, LongLen) : a \in Labels, b \in 0..1}

NoCall == [fn |-> "none", stream |-> "none", pass |-> "none", num_epochs |-> 0,
           log |-> FALSE, updates |-> {}]
NoModel == [conv1 |-> "none", conv2 |-> "none", fc1 |-> "none", born |-> -1]

\* The state of a process that has not yet built a model or run anything.
InitNet ==
    /\ model = NoModel /\ param = <<>> /\ optimizer = {}
    /\ call = NoCall

InitOther ==
    /\ err = NoError /\ returned = <<>>
    /\ item = NoItem
    /\ memo = <<>>
    /\ epoch = 0 /\ batch = 0 /\ epoch_loss = 0 /\ correct = 0 /\ total = 0
    /\ nhit = 0
    /\ train_losses = <<>> /\ train_accuracies = <<>>
    /\ model_type = "none" /\ run = 0
    /\ losses = <<>> /\ accuracies = <<>> /\ accuracy = <<0, 0>>
    /\ all_accuracies = <<>> /\ all_losses = <<>>
    /\ results = <<>>
    /\ trace = <<>>
    /\ handlers = <<>> /\ files = <<>> /\ images = {} /\ saved = {}

\* Everything but the raw datasets and the position, as the script starts.
InitRest ==
    /\ big_train_dataset = None /\ small_train_dataset = None
    /\ InitNet
    /\ InitOther

(* --------------------------- loaders and network ----------------------- *)
\* DataLoader(dataset, batch_size=...); drop_last is left at False.
DataLoader(dataset, batch_size) == [dataset |-> dataset, batch_size |-> batch_size]
big_train_loader == DataLoader(big_train_dataset, BigBatch)
small_train_loader == DataLoader(small_train_dataset, SmallBatch)
test_loader == DataLoader(test_dataset, TestBatch)
LoaderOf(stream) ==
    CASE stream = "big" -> big_train_loader
      [] stream = "small" -> small_train_loader
      [] OTHER -> test_loader

\* len(loader): the number of batches.
NumBatches(loader) ==
    (DsLen(loader.dataset) + loader.batch_size - 1) \div loader.batch_size
\* The positions of batch i.  shuffle=True permutes the positions of the two
\* training loaders; the sizes of the batches are the same for every
\* permutation, and the outcome of a training batch is drawn below from
\* every count a batch of that size can have.
BatchItems(loader, i) ==
    {k \in 0..(DsLen(loader.dataset) - 1) :
        k \div loader.batch_size = i}
BatchErrors(loader, i) ==
    {GetItem(loader.dataset, k).err : k \in BatchItems(loader, i)} \ {"none"}

Values == 0..MaxValue
LayerNames == {"conv1", "conv2", "fc1"}
\* A new parameter object.
Parameter(v) == [value |-> v, requires_grad |-> TRUE, grad |-> {}]
\* MNISTNet(num_classes=5), constructed in run r with initial weights w.
MNISTNet_stale(r, w) ==
    IF param = <<>> THEN [p \in {<<r, n>> : n \in LayerNames} |-> Parameter(w[p[2]])]
    ELSE [p \in {<<r, n>> : n \in LayerNames} |->
             IF p[2] = "fc1" THEN Parameter(w[p[2]])
             ELSE [Parameter(w[p[2]]) EXCEPT !.requires_grad = FALSE]]
MNISTNet(r, w) ==
    [p \in {<<r, n>> : n \in LayerNames} |-> Parameter(w[p[2]])]
\* model.parameters()
Parameters(m) == {m.conv1, m.conv2, m.fc1}
\* The weights the forward pass reads.
Key == <<param[model.conv1].value, param[model.conv2].value,
         param[model.fc1].value>>
\* The numbers of correct predictions a batch of n items can have.
BatchChoices(n) ==
    {c \in 0..n : (c > 0 => TRUE \in hits) /\ (c < n => FALSE \in hits)}

\* An uncaught exception of type e ends the process at the current position.
Crash_caught(e) ==
    /\ pc' = IF caller = "script" /\ pc # "L208" THEN "L208" ELSE "crashed"
    /\ err' = [type |-> e, at |-> pc]
Crash(e) == pc' = "crashed" /\ err' = [type |-> e, at |-> pc]

\* The origin of what is computed now: the run, the pass and the epoch.
Origin == [run |-> IF caller = "script" THEN run + 1 ELSE 0,
           pass |-> call.pass, epoch |-> epoch + 1]
Msg(kind) == [run |-> run + 1, kind |-> kind, pass |-> call.pass,
              epoch |-> IF kind = "epoch" THEN epoch + 1 ELSE 0]

\* logger.info(msg): every handler of the logger writes the line to its file.
RECURSIVE Emit(_, _, _)
Emit(fs, hs, msg) ==
    IF hs = <<>> THEN fs
    ELSE Emit([fs EXCEPT ![Head(hs)] = Append(@, msg)], Tail(hs), msg)
Info(fs, msg) == Emit(fs, handlers[model_type], msg)

(* ------------------------ train_model: lines 111-142 ------------------- *)
TrainBegin ==
    /\ pc = "L112"
    /\ train_losses' = <<>> /\ train_accuracies' = <<>>
    /\ epoch' = 0
    /\ pc' = "L114"
    /\ UNCHANGED <<ctlVars, dataVars, netVars, runVars, fsVars, call, batch,
                   epoch_loss, correct, total, nhit>>

\* Lines 114-118: the next epoch starts.
EpochBegin ==
    /\ pc = "L114"
    /\ epoch < call.num_epochs
    /\ epoch_loss' = 0 /\ correct' = 0 /\ total' = 0 /\ batch' = 0
    /\ pc' = IF NumBatches(LoaderOf(call.stream)) > 0 THEN "L122" ELSE "L134"
    /\ UNCHANGED <<ctlVars, dataVars, netVars, runVars, fsVars, call, epoch,
                   nhit, train_losses, train_accuracies>>

\* Lines 119-123: the batch is read, the outputs and the loss are computed.
Forward ==
    /\ pc = "L122"
    /\ LET errs == BatchErrors(LoaderOf(call.stream), batch)
       IN  IF errs # {}
           THEN /\ Crash(CHOOSE e \in errs : TRUE)
                /\ UNCHANGED <<nhit, caller, returned>>
           ELSE /\ \E c \in BatchChoices(
                       Cardinality(BatchItems(LoaderOf(call.stream), batch))) :
                       nhit' = c
                /\ pc' = "L125"
                /\ UNCHANGED ctlVars
    /\ UNCHANGED <<dataVars, netVars, runVars, fsVars, call, epoch, batch,
                   epoch_loss, correct, total, train_losses, train_accuracies>>

\* The gradient of parameter p after zero_grad(): none.
ZeroedGrad_kept(p) == param[p].grad
ZeroedGrad(p) == {}

\* Line 125: optimizer.zero_grad().
ZeroGrad ==
    /\ pc = "L125"
    /\ param' = [p \in DOMAIN param |->
                    IF p \in optimizer
                    THEN [param[p] EXCEPT !.grad = ZeroedGrad(p)]
                    ELSE param[p]]
    /\ pc' = "L126"
    /\ UNCHANGED <<ctlVars, dataVars, model, optimizer, hits, memo, runVars,
                   fsVars, localVars>>

\* Line 126: loss.backward() adds this batch's gradient to every parameter of
\* the model that requires one.
Backward ==
    /\ pc = "L126"
    /\ IF \A p \in Parameters(model) : ~param[p].requires_grad
       THEN /\ Crash("RuntimeError")
            /\ UNCHANGED <<param, caller, returned>>
       ELSE /\ param' = [p \in DOMAIN param |->
                            IF p \in Parameters(model) /\ param[p].requires_grad
                            THEN [param[p] EXCEPT
                                     !.grad = @ \cup {<<call.pass, epoch, batch>>}]
                            ELSE param[p]]
            /\ pc' = "L127"
            /\ UNCHANGED ctlVars
    /\ UNCHANGED <<dataVars, model, optimizer, hits, memo, runVars, fsVars,
                   localVars>>

\* The parameter objects an optimizer step moves: those it is bound to that
\* hold a gradient.
Stepped == {p \in optimizer : param[p].grad # {}}

\* Line 127: optimizer.step().
OptStep ==
    /\ pc = "L127"
    /\ \E new \in [Stepped -> Values] :
          param' = [p \in DOMAIN param |->
                       IF p \in Stepped THEN [param[p] EXCEPT !.value = new[p]]
                       ELSE param[p]]
    /\ pc' = "L129"
    /\ UNCHANGED <<ctlVars, dataVars, model, optimizer, hits, memo, runVars,
                   fsVars, localVars>>

\* Lines 129-132.  The loss of a batch stands as its number of misses.
Accumulate ==
    /\ pc = "L129"
    /\ LET n == Cardinality(BatchItems(LoaderOf(call.stream), batch))
       IN  /\ epoch_loss' = epoch_loss + (n - nhit)
           /\ correct' = correct + nhit
           /\ total' = total + n
    /\ batch' = batch + 1
    /\ pc' = IF batch + 1 < NumBatches(LoaderOf(call.stream))
             THEN "L122" ELSE "L134"
    /\ UNCHANGED <<ctlVars, dataVars, netVars, runVars, fsVars, call, epoch,
                   nhit, train_losses, train_accuracies>>

\* Lines 134-140: the epoch's mean loss and accuracy are appended and logged.
\* A quotient is kept as <<numerator, denominator>>.
EpochEnd ==
    /\ pc = "L134"
    /\ IF NumBatches(LoaderOf(call.stream)) = 0 \/ total = 0
       THEN /\ Crash("ZeroDivisionError")
            /\ UNCHANGED <<train_losses, train_accuracies, epoch, files,
                           caller, returned>>
       ELSE /\ train_losses' = Append(train_losses,
                   [origin |-> Origin,
                    value |-> <<epoch_loss, NumBatches(LoaderOf(call.stream))>>])
            /\ train_accuracies' = Append(train_accuracies,
                   [origin |-> Origin, value |-> <<100 * correct, total>>])
            /\ files' = IF call.log THEN Info(files, Msg("epoch")) ELSE files
            /\ epoch' = epoch + 1
            /\ pc' = "L114"
            /\ UNCHANGED ctlVars
    /\ UNCHANGED <<dataVars, netVars, runVars, handlers, images, saved, call,
                   batch, epoch_loss, correct, total, nhit>>

\* Which passes of run_experiment bind the trainer's result to losses,
\* accuracies (lines 175 and 198; line 183 discards it).
BindsResult_first(pass) == pass \in {"scratch", "pretrain"}
BindsResult(pass) == pass \in {"scratch", "finetune"}

\* Where run_experiment goes on after a training pass.
AfterTrain(pass) == IF pass = "pretrain" THEN "L186" ELSE "L201"

\* An entry of the history of a run.
Step(name) == [step |-> name, stream |-> "none", epochs |-> 0, updates |-> {},
               conv |-> <<>>]

\* Line 142: return train_losses, train_accuracies.
TrainReturn ==
    /\ pc = "L114"
    /\ epoch >= call.num_epochs
    /\ IF caller = "harness"
       THEN /\ returned' = Append(returned, <<train_losses, train_accuracies>>)
            /\ pc' = "Hdone"
            /\ UNCHANGED <<losses, accuracies, trace>>
       ELSE /\ losses' = IF BindsResult(call.pass) THEN train_losses ELSE losses
            /\ accuracies' = IF BindsResult(call.pass) THEN train_accuracies
                             ELSE accuracies
            /\ trace' = Append(trace, [step |-> "train", stream |-> call.stream,
                                       epochs |-> epoch, updates |-> call.updates,
                                       conv |-> <<>>])
            /\ pc' = AfterTrain(call.pass)
            /\ UNCHANGED returned
    /\ UNCHANGED <<caller, err, dataVars, netVars, fsVars, localVars, model_type,
                   run, accuracy, all_accuracies, all_losses, results>>

(* ------------------------ test_model: lines 145-157 -------------------- *)
\* Lines 146-149.
TestBegin ==
    /\ pc = "L146"
    /\ correct' = 0 /\ total' = 0 /\ batch' = 0
    /\ pc' = IF NumBatches(test_loader) > 0 THEN "L150" ELSE "L157"
    /\ UNCHANGED <<ctlVars, dataVars, netVars, runVars, fsVars, call, epoch,
                   epoch_loss, nhit, train_losses, train_accuracies>>

\* The parameters as an evaluation batch leaves them: as they were.
AfterEvalBatch_train ==
    [p \in DOMAIN param |->
        IF p = model.fc1
        THEN [param[p] EXCEPT !.value = (@ + 1) % (MaxValue + 1)]
        ELSE param[p]]
AfterEvalBatch == param

\* What a batch adds to total: labels.size(0).
Counted(n) == n

\* Lines 150-155: one batch, forward only.  The number of correct
\* predictions is a function of the weights and the batch: memo keeps the
\* function at the points where it has been evaluated.
EvalBatch ==
    /\ pc = "L150"
    /\ LET errs == BatchErrors(test_loader, batch)
           n == Cardinality(BatchItems(test_loader, batch))
           at == <<Key, batch>>
       IN  IF errs # {}
           THEN /\ Crash(CHOOSE e \in errs : TRUE)
                /\ UNCHANGED <<param, memo, correct, total, batch, caller,
                               returned>>
           ELSE /\ \E c \in (IF at \in DOMAIN memo THEN {memo[at]}
                                                  ELSE BatchChoices(n)) :
                      /\ memo' = IF at \in DOMAIN memo THEN memo
                                 ELSE memo @@ (at :> c)
                      /\ correct' = correct + c
                /\ total' = total + Counted(n)
                /\ param' = AfterEvalBatch
                /\ batch' = batch + 1
                /\ pc' = IF batch + 1 < NumBatches(test_loader)
                         THEN "L150" ELSE "L157"
                /\ UNCHANGED ctlVars
    /\ UNCHANGED <<dataVars, model, optimizer, hits, runVars, fsVars, call,
                   epoch, epoch_loss, nhit, train_losses, train_accuracies>>

\* Line 157: return 100 * correct / total.
TestReturn ==
    /\ pc = "L157"
    /\ IF total = 0
       THEN /\ Crash("ZeroDivisionError")
            /\ UNCHANGED <<returned, accuracy, trace>>
       ELSE IF caller = "harness"
       THEN /\ returned' = Append(returned, <<100 * correct, total>>)
            /\ pc' = IF returned = <<>> THEN "H2" ELSE "Hdone"
            /\ UNCHANGED <<err, accuracy, trace>>
       ELSE /\ accuracy' = <<100 * correct, total>>
            /\ trace' = Append(trace, Step("evaluate"))
            /\ pc' = "L202"
            /\ UNCHANGED <<err, returned>>
    /\ UNCHANGED <<caller, dataVars, netVars, fsVars, localVars, model_type,
                   run, losses, accuracies, all_accuracies, all_losses,
                   results>>

\* A direct caller evaluates the same model once more.
EvalAgain ==
    /\ pc = "H2"
    /\ pc' = "L146"
    /\ UNCHANGED <<ctlVars, dataVars, netVars, localVars, runVars, fsVars>>

(* ---------------------- run_experiment: lines 160-226 ------------------ *)
\* Lines 234 and 238: run_experiment(num_runs, model_type, ...) is entered.
EnterExperiment(type) ==
    /\ model_type' = type
    /\ all_accuracies' = <<>> /\ all_losses' = <<>>
    /\ run' = 0
    /\ pc' = IF NumRuns > 0 THEN "L165" ELSE "L226"
    /\ UNCHANGED <<ctlVars, dataVars, netVars, localVars, fsVars, losses,
                   accuracies, accuracy, results, trace>>

CallNonTransfer == pc = "L234" /\ caller = "script" /\ EnterExperiment("non_transfer")
CallTransfer == pc = "L238" /\ EnterExperiment("transfer")

\* The handlers of logger `name` once setup_logger has added file f: the
\* logger of a name is one object for the whole process (lines 97 and 107).
AddHandler(name, f) ==
    IF name \in DOMAIN handlers
    THEN [handlers EXCEPT ![name] = Append(@, f)]
    ELSE (name :> <<f>>) @@ handlers

\* Lines 165-167: setup_logger(model_type, run + 1), then "Run r/n" is logged.
\* FileHandler opens the file for appending, creating it when missing.
SetupLogger ==
    /\ pc = "L165"
    /\ LET f == <<model_type, run + 1>>
           opened == IF f \in DOMAIN files THEN files ELSE (f :> <<>>) @@ files
           hs == AddHandler(model_type, f)
       IN  /\ handlers' = hs
           /\ files' = Emit(opened, hs[model_type],
                            [run |-> run + 1, kind |-> "run", pass |-> "none",
                             epoch |-> 0])
    /\ pc' = "L168"
    /\ UNCHANGED <<ctlVars, dataVars, netVars, localVars, images, saved,
                   model_type, run, losses, accuracies, accuracy,
                   all_accuracies, all_losses, results, trace>>

\* Line 168: model = MNISTNet(num_classes=5), with freshly drawn weights.
Construct ==
    /\ pc = "L168"
    /\ \E w \in [LayerNames -> Values] : param' = MNISTNet(run, w)
    /\ model' = [conv1 |-> <<run, "conv1">>, conv2 |-> <<run, "conv2">>,
                 fc1 |-> <<run, "fc1">>, born |-> run]
    /\ memo' = <<>>
    /\ trace' = Append(trace, [Step("construct") EXCEPT
                    !.updates = {n \in LayerNames :
                                    param'[model'[n]].requires_grad}])
    /\ pc' = "L170"
    /\ UNCHANGED <<ctlVars, dataVars, optimizer, hits, localVars, fsVars,
                   model_type, run, losses, accuracies, accuracy,
                   all_accuracies, all_losses, results>>

\* optim.Adam(params): the optimizer is bound to the given parameter objects.
Adam(params) == params
\* The layers whose parameters optimizer o moves when gradients flow.
Updates(o) ==
    {n \in LayerNames : model[n] \in o /\ param[model[n]].requires_grad}

TrainCall(stream, pass, o) ==
    [fn |-> "train_model", stream |-> stream, pass |-> pass,
     num_epochs |-> NumEpochs, log |-> TRUE, updates |-> Updates(o)]

\* Lines 170-175 (non_transfer) and 177-183 (transfer): the optimizer over
\* all parameters, the "Starting ..." line, and the first call of train_model.
StartTraining ==
    /\ pc = "L170"
    /\ optimizer' = Adam(Parameters(model))
    /\ call' = IF model_type = "non_transfer"
               THEN TrainCall("small", "scratch", Parameters(model))
               ELSE TrainCall("big", "pretrain", Parameters(model))
    /\ files' = Info(files, [run |-> run + 1, kind |-> "start",
                             pass |-> "none", epoch |-> 0])
    /\ pc' = "L112"
    /\ UNCHANGED <<ctlVars, dataVars, model, param, hits, memo, runVars,
                   handlers, images, saved, epoch, batch, epoch_loss, correct,
                   total, nhit, train_losses, train_accuracies>>

\* The parameter objects the freeze step marks (lines 186-189).
Frozen_conv1 == {model.conv1}
Frozen == {model.conv1, model.conv2}

Freeze ==
    /\ pc = "L186"
    /\ param' = [p \in DOMAIN param |->
                    IF p \in Frozen THEN [param[p] EXCEPT !.requires_grad = FALSE]
                    ELSE param[p]]
    /\ trace' = Append(trace, [Step("freeze") EXCEPT
                    !.conv = <<param[model.conv1].value,
                               param[model.conv2].value>>])
    /\ pc' = "L191"
    /\ UNCHANGED <<ctlVars, dataVars, model, optimizer, hits, memo, localVars,
                   fsVars, model_type, run, losses, accuracies, accuracy,
                   all_accuracies, all_losses, results>>

\* Line 191: model.fc1 = nn.Linear(64 * 7 * 7, 5), a new parameter object.
ReplaceFc ==
    /\ pc = "L191"
    /\ \E v \in Values :
          param' = (<<run, "linear">> :> Parameter(v)) @@ param
    /\ model' = [model EXCEPT !.fc1 = <<run, "linear">>]
    /\ trace' = Append(trace, Step("replace"))
    /\ pc' = "L194"
    /\ UNCHANGED <<ctlVars, dataVars, optimizer, hits, memo, localVars, fsVars,
                   model_type, run, losses, accuracies, accuracy,
                   all_accuracies, all_losses, results>>

\* Line 194: [param for param in model.parameters() if param.requires_grad]
params_to_train == {p \in Parameters(model) : param[p].requires_grad}

\* Lines 194-198: the optimizer of the fine-tuning pass, and the second call
\* of train_model.  The first optimizer is dropped, and with it the last
\* reference to the replaced layer's parameter object.
StartFineTuning ==
    /\ pc = "L194"
    /\ IF params_to_train = {}
       THEN /\ Crash("ValueError")
            /\ UNCHANGED <<optimizer, param, call, caller, returned>>
       ELSE /\ optimizer' = Adam(params_to_train)
            /\ param' = [p \in Parameters(model) |-> param[p]]
            /\ call' = TrainCall("small", "finetune", params_to_train)
            /\ pc' = "L112"
            /\ UNCHANGED ctlVars
    /\ UNCHANGED <<dataVars, model, hits, memo, runVars, fsVars, epoch, batch,
                   epoch_loss, correct, total, nhit, train_losses,
                   train_accuracies>>

\* Line 201: test_model(model, test_loader) is called.
CallTest ==
    /\ pc = "L201"
    /\ call' = [fn |-> "test_model", stream |-> "test", pass |-> "test",
                num_epochs |-> 0, log |-> FALSE, updates |-> {}]
    /\ pc' = "L146"
    /\ UNCHANGED <<ctlVars, dataVars, netVars, runVars, fsVars, epoch, batch,
                   epoch_loss, correct, total, nhit, train_losses,
                   train_accuracies>>

\* Lines 202-205: the test accuracy is logged, and the run's accuracy and
\* losses are appended.
Record ==
    /\ pc = "L202"
    /\ files' = Info(files, [run |-> run + 1, kind |-> "test", pass |-> "test",
                             epoch |-> 0])
    /\ all_accuracies' = Append(all_accuracies,
                                [run |-> run + 1, value |-> accuracy])
    /\ all_losses' = Append(all_losses, losses)
    /\ trace' = Append(trace, Step("record"))
    /\ pc' = "L208"
    /\ UNCHANGED <<ctlVars, dataVars, netVars, localVars, handlers, images,
                   saved, model_type, run, losses, accuracies, accuracy,
                   results>>

\* Lines 208-224: the run's plot is written; then the loop goes on (line 164).
PlotRun ==
    /\ pc = "L208"
    /\ images' = images \cup {<<model_type, run + 1>>}
    /\ run' = run + 1
    /\ trace' = <<>>
    /\ pc' = IF run + 1 < NumRuns THEN "L165" ELSE "L226"
    /\ UNCHANGED <<ctlVars, dataVars, netVars, localVars, handlers, files,
                   saved, model_type, losses, accuracies, accuracy,
                   all_accuracies, all_losses, results>>

\* Line 226: return all_accuracies, all_losses (bound at lines 234, 238).
ReturnExperiment ==
    /\ pc = "L226"
    /\ results' = (model_type :> [accuracies |-> all_accuracies,
                                  losses |-> all_losses]) @@ results
    /\ pc' = IF model_type = "non_transfer" THEN "L238" ELSE "L241"
    /\ UNCHANGED <<ctlVars, dataVars, netVars, localVars, fsVars, model_type,
                   run, losses, accuracies, accuracy, all_accuracies,
                   all_losses, trace>>

(* ------------------------- the script: lines 228-268 ------------------- *)
\* Lines 241-244: the four arrays are saved.
Save ==
    /\ pc = "L241"
    /\ saved' = {"non_transfer_accuracies", "non_transfer_losses",
                 "transfer_accuracies", "transfer_losses"}
    /\ pc' = "L265"
    /\ UNCHANGED <<ctlVars, dataVars, netVars, localVars, runVars, handlers,
                   files, images>>

\* Lines 247-266: the two summary plots; np.mean(losses, axis=1) needs rows
\* of one length.
PlotResults ==
    /\ pc = "L265"
    /\ IF \E t \in DOMAIN results :
            \E i, j \in 1..Len(results[t].losses) :
                Len(results[t].losses[i]) # Len(results[t].losses[j])
       THEN /\ Crash("ValueError")
            /\ UNCHANGED images
       ELSE /\ images' = images \cup {<<"Non-Transfer Experiment", 0>>,
                                      <<"Transfer Experiment", 0>>}
            /\ pc' = "done"
            /\ UNCHANGED err
    /\ UNCHANGED <<caller, returned, dataVars, netVars, localVars, runVars,
                   handlers, files, saved>>

\* The positions inside one run of run_experiment.
RunPositions == {"L165", "L168", "L170", "L112", "L114", "L122", "L125", "L126",
                 "L127", "L129", "L134", "L186", "L191", "L194", "L201",
                 "L146", "L150", "L157", "L202", "L208"}

\* A library call of the current step raises (an I/O error, an exhausted
\* device, ...): nothing catches it, and the process ends.
Raise ==
    /\ pc \in RunPositions
    /\ caller = "script"
    /\ Crash("Exception")
    /\ UNCHANGED <<caller, returned, dataVars, netVars, localVars, runVars,
                   fsVars>>

(* --------------------------- specifications ---------------------------- *)
InitData ==
    /\ pc = "L37"
    /\ caller = "harness"
    /\ hits = {FALSE}
    /\ full_train_dataset \in {MNIST(l) : l \in RawInputs}
    /\ test_dataset \in {MNIST(l) : l \in RawInputs}
    /\ InitRest

NextData == SelectBig \/ SelectSmall \/ SelectTest \/ Wrap \/ ReadItem

SpecData == InitData /\ [][NextData]_vars

\* The whole script, from line 37 on.
Init ==
    /\ pc = "L37"
    /\ caller = "script"
    /\ hits \in {{FALSE}, {TRUE}}
    /\ full_train_dataset = MNIST(Periodic(1, 0, MainLen))
    /\ test_dataset \in {MNIST(Periodic(1, 0, MainLen)), MNIST(<<>>)}
    /\ InitRest

Next ==
    \/ SelectBig \/ SelectSmall \/ SelectTest \/ Wrap
    \/ CallNonTransfer \/ CallTransfer
    \/ SetupLogger \/ Construct \/ StartTraining
    \/ TrainBegin \/ EpochBegin \/ Forward \/ ZeroGrad \/ Backward \/ OptStep
    \/ Accumulate \/ EpochEnd \/ TrainReturn
    \/ Freeze \/ ReplaceFc \/ StartFineTuning
    \/ CallTest \/ TestBegin \/ EvalBatch \/ TestReturn
    \/ Record \/ PlotRun \/ ReturnExperiment \/ Save \/ PlotResults
    \/ Raise

Spec == Init /\ [][Next]_vars

\* The datasets as lines 37-71 leave them, for raw datasets tr and te.
Prepared(tr, te) ==
    /\ full_train_dataset = MNIST(tr)
    /\ big_train_dataset = RemapLabelsDataset(
           Subset(MNIST(tr), IndicesWhere(MNIST(tr), Range(EvenLabels), 0)),
           even_label_map)
    /\ small_train_dataset = RemapLabelsDataset(
           Subset(MNIST(tr), CappedIndices(MNIST(tr), OddLabels, SmallCap)),
           odd_label_map)
    /\ test_dataset = RemapLabelsDataset(
           Subset(MNIST(te), CappedIndices(MNIST(te), OddLabels, TestCap)),
           odd_label_map)

\* A model as run_experiment hands it to train_model and test_model: all
\* parameters trainable under an optimizer over all of them, or the two
\* convolution stages frozen under an optimizer over the rest.
GivenModel ==
    /\ model = [conv1 |-> <<0, "conv1">>, conv2 |-> <<0, "conv2">>,
                fc1 |-> <<0, "fc1">>, born |-> 0]
    /\ \E v \in Values, frozen \in BOOLEAN :
          LET net == MNISTNet(0, [n \in LayerNames |-> v])
          IN  param = [p \in DOMAIN net |->
                          [net[p] EXCEPT
                              !.requires_grad = ~(frozen /\ p[2] # "fc1")]]
    /\ optimizer = {p \in Parameters(model) : param[p].requires_grad}

ShortInputs == {Periodic(1, 0, n) : n \in 0..HarnessLen}

\* train_model called directly, with every argument drawn from its set.
InitTrain ==
    /\ pc = "L112"
    /\ caller = "harness"
    /\ hits = BOOLEAN
    /\ \E tr \in ShortInputs : Prepared(tr, tr)
    /\ GivenModel
    /\ \E s \in {"big", "small"}, e \in 0..NumEpochs :
          call = [fn |-> "train_model", stream |-> s, pass |-> "harness",
                  num_epochs |-> e, log |-> FALSE, updates |-> Updates(optimizer)]
    /\ InitOther

NextTrain ==
    \/ TrainBegin \/ EpochBegin \/ Forward \/ ZeroGrad \/ Backward \/ OptStep
    \/ Accumulate \/ EpochEnd \/ TrainReturn

SpecTrain == InitTrain /\ [][NextTrain]_vars
\* The interpreter always takes the next step of the one thread there is.
SpecTrainFair == SpecTrain /\ WF_vars(NextTrain)

\* test_model called directly, twice in a row on the same model and stream.
InitEval ==
    /\ pc = "L146"
    /\ caller = "harness"
    /\ hits = BOOLEAN
    /\ \E te \in ShortInputs \cup {Periodic(2, 1, LongLen)} :
          Prepared(<<>>, te)
    /\ GivenModel
    /\ call = [fn |-> "test_model", stream |-> "test", pass |-> "test",
               num_epochs |-> 0, log |-> FALSE, updates |-> {}]
    /\ InitOther

NextEval == TestBegin \/ EvalBatch \/ TestReturn \/ EvalAgain

SpecEval == InitEval /\ [][NextEval]_vars

(* ------------------------------ properties ----------------------------- *)
\* The raw label sequence under a dataset object.
RECURSIVE RawLabels(_)
RawLabels(ds) == IF ds.kind = "MNIST" THEN ds.labels
                 ELSE IF ds.kind = "None" THEN <<>> ELSE RawLabels(ds.dataset)
\* The positions a Subset, or a wrapper around one, selects.
IndicesOf(ds) == IF ds.kind = "Remap" THEN ds.dataset.indices ELSE ds.indices
Odd == {1, 3, 5, 7, 9}
Even == {0, 2, 4, 6, 8}

\* A wrapper ds over keys `keys` is total: each of its items has an original
\* label in keys, is read without error as that label's rank among the keys,
\* and the wrapper is as long as what it wraps.
WrapsOnly(ds, keys) ==
    /\ ds.kind = "Remap"
    /\ DOMAIN ds.label_map = keys
    /\ DsLen(ds) = Len(ds.dataset.indices)
    /\ \A idx \in 0..(DsLen(ds) - 1) :
          LET orig == GetItem(ds.dataset, idx)
              got == GetItem(ds, idx)
          IN  /\ orig.err = "none" /\ orig.label \in keys
              /\ got.err = "none" /\ got.label \in 0..4
              /\ got.label = Cardinality({k \in keys : k < orig.label})

\* C6: once the three datasets are wrapped, every item of each has an
\* original label that is a key of its label map (the even labels for the big
\* training set, the odd ones for the small training set and the test set),
\* no item access raises, every remapped label is the rank of the original
\* one and lies in 0..4, and each wrapper is as long as its subset.
C6_RemapTotal ==
    pc = "L234" =>
        /\ WrapsOnly(big_train_dataset, Even)
        /\ WrapsOnly(small_train_dataset, Odd)
        /\ WrapsOnly(test_dataset, Odd)
        /\ item.err \in {"unset", "none"}
        /\ item.err = "none" => item.label \in 0..4

C6_Witness ==
    /\ pc = "L234"
    /\ item = Item(4)
    /\ DsLen(big_train_dataset) > 0
    /\ DsLen(small_train_dataset) = 5 * SmallCap
    /\ DsLen(test_dataset) = 5 * TestCap

\* How many items of raw sequence l carry label x, and how many of them lie
\* before position p.
CountOf(l, x) == Cardinality({q \in 1..Len(l) : l[q] = x})
Before(l, x, p) == Cardinality({q \in 0..(p - 1) : l[q + 1] = x})

\* idxs is the capped selection of the odd labels of l with cap K.
CappedSelection(l, idxs, K) ==
    /\ \A i, j \in 1..Len(idxs) : i # j => idxs[i] # idxs[j]
    /\ \A k \in 1..Len(idxs) :
          idxs[k] \in 0..(Len(l) - 1) /\ l[idxs[k] + 1] \in Odd
    /\ \A x \in Odd :
          /\ {p \in Range(idxs) : l[p + 1] = x}
                = {p \in 0..(Len(l) - 1) : l[p + 1] = x /\ Before(l, x, p) < K}
          /\ Cardinality({p \in Range(idxs) : l[p + 1] = x}) <= K
    /\ (\A x \in Odd : CountOf(l, x) >= K) =>
          /\ \A x \in Odd : Cardinality({p \in Range(idxs) : l[p + 1] = x}) = K
          /\ {l[p + 1] : p \in Range(idxs)} = Odd
          /\ Len(idxs) = 5 * K

\* C7: the small training selection (cap SmallCap) and the test selection
\* (cap TestCap) hold, for each odd label, exactly the first min(cap,
\* available) positions of that label in dataset order: no position twice,
\* none of another label, at most cap per label, and exactly cap per label
\* with all five labels present when the raw dataset has that many of each.
C7_CappedSelection ==
    /\ pc \in {"L48", "L69", "L234"} =>
          CappedSelection(RawLabels(full_train_dataset),
                          IndicesOf(small_train_dataset), SmallCap)
    /\ pc \in {"L69", "L234"} =>
          CappedSelection(RawLabels(test_dataset), IndicesOf(test_dataset),
                          TestCap)

C7_Witness ==
    /\ pc = "L69"
    /\ \A x \in Odd : CountOf(RawLabels(full_train_dataset), x) > SmallCap
    /\ \A x \in Odd : CountOf(RawLabels(test_dataset), x) >= TestCap
    /\ \E x \in Odd : CountOf(RawLabels(test_dataset), x) > TestCap
    /\ Len(IndicesOf(small_train_dataset)) = 5 * SmallCap
    /\ Len(IndicesOf(test_dataset)) = 5 * TestCap

\* The stream of the running call, its length and its number of batches.
Stream == LoaderOf(call.stream)
StreamLen == DsLen(Stream.dataset)

\* C3 (safety part): for a non-empty stream, train_model never raises; it has
\* appended one loss and one accuracy per finished epoch, the i-th of epoch
\* i, each over one whole pass (every item counted once, every batch in the
\* mean); it returns exactly num_epochs of each; and at each optimizer step
\* every trainable parameter holds the gradient of the current batch alone,
\* zero_grad having run before backward.
C3_Safe ==
    (caller = "harness" /\ call.fn = "train_model" /\ StreamLen > 0) =>
        /\ pc # "crashed"
        /\ epoch <= call.num_epochs
        /\ pc \in {"L114", "L122", "L125", "L126", "L127", "L129", "L134"} =>
              /\ Len(train_losses) = epoch
              /\ Len(train_accuracies) = epoch
        /\ \A i \in 1..Len(train_losses) :
              /\ train_losses[i].origin.epoch = i
              /\ train_losses[i].value[2] = NumBatches(Stream)
        /\ \A i \in 1..Len(train_accuracies) :
              /\ train_accuracies[i].origin.epoch = i
              /\ train_accuracies[i].value[2] = StreamLen
        /\ pc = "L127" =>
              \A p \in optimizer :
                  param[p].requires_grad =>
                      param[p].grad = {<<call.pass, epoch, batch>>}
        /\ pc = "Hdone" =>
              /\ returned = <<(<<train_losses, train_accuracies>>)>>
              /\ Len(train_losses) = call.num_epochs
              /\ Len(train_accuracies) = call.num_epochs

\* C3: train_model with epoch count E over a non-empty stream terminates
\* after exactly E passes with E losses and E accuracies in epoch order, has
\* no early exit, and zeroes the gradients before backward and step.
C3_TrainerRunsEpochs ==
    /\ []C3_Safe
    /\ (StreamLen > 0) => <>(pc = "Hdone")

C3_Witness ==
    /\ pc = "Hdone"
    /\ call.stream = "small" /\ StreamLen >= 3
    /\ call.num_epochs = NumEpochs
    /\ Len(returned[1][1]) = NumEpochs
    /\ returned[1][2][NumEpochs].origin.epoch = NumEpochs

\* The positions inside test_model.
TestPositions == {"L146", "L150", "L157"}

\* C8 (state part): over a non-empty stream of N items test_model does not
\* raise, has counted every item of the batches read so far once, returns
\* 100 * correct / N with 0 <= correct <= N, and the second evaluation of
\* the unchanged model returns what the first returned.
C8_Counts ==
    (caller = "harness" /\ call.fn = "test_model" /\ StreamLen > 0) =>
        /\ pc # "crashed"
        /\ pc \in {"L150", "L157"} =>
              /\ total = Cardinality({k \in 0..(StreamLen - 1) :
                                         k \div TestBatch < batch})
              /\ correct >= 0 /\ correct <= total
        /\ pc = "L157" => total = StreamLen
        /\ \A i \in 1..Len(returned) :
              /\ returned[i][2] = StreamLen
              /\ returned[i][1] >= 0
              /\ returned[i][1] <= 100 * returned[i][2]
        /\ Len(returned) = 2 => returned[1] = returned[2]

\* C8: test_model changes no parameter value and no requires_grad flag, counts
\* every item exactly once, returns an accuracy in [0, 100], and returns the
\* same value when run again on the same unchanged model and stream.
C8_EvaluatorPure ==
    /\ []C8_Counts
    /\ [][(caller = "harness" /\ call.fn = "test_model")
             => (param' = param /\ model' = model)]_vars

C8_Witness ==
    /\ pc = "Hdone"
    /\ call.fn = "test_model"
    /\ StreamLen > TestBatch
    /\ Len(returned) = 2
    /\ returned[2][1] > 0 /\ returned[2][1] < 100 * returned[2][2]

\* C9: train_model over an empty training stream and test_model over an
\* empty held-out stream complete and return instead of raising.
C9_EmptyTolerated ==
    (caller = "harness" /\ StreamLen = 0) => pc # "crashed"

\* Where the script is, or was when it crashed.
Pos == IF pc = "crashed" THEN err.at ELSE pc
InRun == caller = "script" /\ Pos \in RunPositions
\* The entries of the current run's history that are freeze steps.
FreezeEntries == {i \in 1..Len(trace) : trace[i].step = "freeze"}
TrainPositions == {"L112", "L114", "L122", "L125", "L126", "L127", "L129",
                   "L134"}

\* C1: in a transfer run, from the freeze step on, conv1 and conv2 hold the
\* values they had right after the freeze and stay marked frozen; the
\* optimizer of the fine-tuning pass is bound to the parameter object of the
\* replacement fc1 alone, and each of its steps moves that object and no
\* other.
C1_ConvFrozen ==
    (caller = "script" /\ model_type = "transfer" /\ FreezeEntries # {}) =>
        /\ \A i \in FreezeEntries :
              trace[i].conv = <<param[model.conv1].value,
                                param[model.conv2].value>>
        /\ ~param[model.conv1].requires_grad
        /\ ~param[model.conv2].requires_grad
        /\ (Pos \in TrainPositions /\ call.pass = "finetune") =>
              /\ model.fc1 = <<run, "linear">>
              /\ optimizer = {model.fc1}
              /\ Pos \in {"L127", "L129"} => Stepped = {model.fc1}

C1_Witness ==
    /\ pc = "L129"
    /\ call.pass = "finetune"
    /\ epoch = NumEpochs - 1 /\ batch = 1
    /\ run = NumRuns - 1
    /\ Stepped = {model.fc1}
    /\ param[model.conv1].grad # {}

\* The steps of one run, in order.
Sig(e) == <<e.step, e.stream, e.epochs, e.updates>>
ExpectedSteps(type) ==
    IF type = "non_transfer"
    THEN << <<"construct", "none", 0, LayerNames>>,
            <<"train", "small", NumEpochs, LayerNames>>,
            <<"evaluate", "none", 0, {}>>,
            <<"record", "none", 0, {}>> >>
    ELSE << <<"construct", "none", 0, LayerNames>>,
            <<"train", "big", NumEpochs, LayerNames>>,
            <<"freeze", "none", 0, {}>>,
            <<"replace", "none", 0, {}>>,
            <<"train", "small", NumEpochs, {"fc1"}>>,
            <<"evaluate", "none", 0, {}>>,
            <<"record", "none", 0, {}>> >>

\* C2: every run builds a new model with all parameters trainable, then makes
\* the steps of its variant in the fixed order, each once (its history is a
\* prefix of the expected sequence, and complete once it has recorded);
\* test_model runs only after the last training pass; and while run index r
\* is running, the r earlier runs have recorded.
C2_RunOrder ==
    InRun =>
        /\ Len(trace) <= Len(ExpectedSteps(model_type))
        /\ \A i \in 1..Len(trace) :
              Sig(trace[i]) = ExpectedSteps(model_type)[i]
        /\ Pos \notin {"L165", "L168"} =>
              /\ model.born = run
              /\ DOMAIN param \subseteq {<<run, n>> : n \in LayerNames \cup {"linear"}}
        /\ Pos = "L170" =>
              \A p \in Parameters(model) :
                  param[p].requires_grad /\ param[p].grad = {}
        /\ Pos \in TestPositions =>
              Len(trace) = Len(ExpectedSteps(model_type)) - 2
        /\ Pos = "L208" => Len(trace) = Len(ExpectedSteps(model_type))
        /\ Len(all_accuracies) >= run

C2_Witness ==
    /\ pc = "L208"
    /\ model_type = "transfer"
    /\ run = NumRuns - 1
    /\ Len(trace) = 7

\* C4: the log file of run r of a variant holds only lines emitted during
\* run r, and once run r has logged its test accuracy that line is its last.
C4_PerRunLog ==
    \A f \in DOMAIN files :
        /\ \A k \in 1..Len(files[f]) : files[f][k].run = f[2]
        /\ (f[1] # model_type \/ f[2] <= run \/ Pos \notin RunPositions) =>
              /\ files[f] # <<>>
              /\ files[f][Len(files[f])].kind = "test"
              /\ files[f][Len(files[f])].run = f[2]

SummaryImages == {<<"Non-Transfer Experiment", 0>>, <<"Transfer Experiment", 0>>}

\* C5 as stated: when a step of a run fails, the process stops, the failed
\* run has appended nothing to the accuracy and loss lists, and no aggregate
\* array and no summary plot is written.
C5_Original ==
    /\ err.type # "none" => pc = "crashed"
    /\ (pc = "crashed" /\ err.at \in RunPositions) =>
          /\ Len(all_accuracies) = run /\ Len(all_losses) = run
          /\ saved = {} /\ images \cap SummaryImages = {}

\* C5 (amended): an exception ends the process for good; a run that fails
\* before its record step has appended nothing, one that fails in its plot
\* step (after line 205) has already appended its accuracy and losses; in
\* both cases no later run has started, and the four arrays and the summary
\* plots are written only after all runs of both variants have completed.
C5_FailStop ==
    /\ err.type # "none" => pc = "crashed"
    /\ (pc = "crashed" /\ err.at \in RunPositions) =>
          /\ Len(all_accuracies) = (IF err.at = "L208" THEN run + 1 ELSE run)
          /\ Len(all_losses) = Len(all_accuracies)
          /\ saved = {} /\ images \cap SummaryImages = {}
          /\ \A f \in DOMAIN files :
                f[1] = model_type => f[2] <= run + 1
          /\ model_type = "non_transfer" =>
                \A f \in DOMAIN files : f[1] # "transfer"
    /\ (saved # {} \/ images \cap SummaryImages # {}) =>
          /\ DOMAIN results = {"non_transfer", "transfer"}
          /\ \A t \in DOMAIN results : Len(results[t].accuracies) = NumRuns
          /\ \A t \in {"non_transfer", "transfer"}, r \in 1..NumRuns :
                <<t, r>> \in images

C5_Witness ==
    /\ pc = "crashed"
    /\ err.at = "L208"
    /\ model_type = "transfer"
    /\ run = NumRuns - 1
    /\ Len(all_accuracies) = NumRuns

\* The pass whose result a variant records.
RecordedPass(type) == IF type = "non_transfer" THEN "scratch" ELSE "finetune"
\* accs and ls are the lists of the first n runs of variant type.
ListsOf(type, accs, ls, n) ==
    /\ Len(accs) = n /\ Len(ls) = n
    /\ \A r \in 1..n :
          /\ accs[r].run = r
          /\ Len(ls[r]) = NumEpochs
          /\ \A e \in 1..NumEpochs :
                ls[r][e].origin = [run |-> r, pass |-> RecordedPass(type),
                                   epoch |-> e]

\* C10: after k completed runs the accuracy list and the loss list hold k
\* entries each, entry r of run r; every loss entry has num_epochs values; a
\* transfer run records the losses and accuracies of its fine-tuning pass,
\* not of its pretraining pass; and the lists returned are those.
C10_Lists ==
    /\ InRun =>
          /\ ListsOf(model_type, all_accuracies, all_losses,
                     IF Pos = "L208" THEN run + 1 ELSE run)
          /\ Pos \in {"L201", "L146", "L150", "L157", "L202"} =>
                /\ Len(losses) = NumEpochs /\ Len(accuracies) = NumEpochs
                /\ \A e \in 1..NumEpochs :
                      /\ losses[e].origin.pass = RecordedPass(model_type)
                      /\ accuracies[e].origin.pass = RecordedPass(model_type)
                      /\ accuracies[e].origin.run = run + 1
    /\ \A t \in DOMAIN results :
          ListsOf(t, results[t].accuracies, results[t].losses, NumRuns)

C10_Witness ==
    /\ pc = "L265"
    /\ DOMAIN results = {"non_transfer", "transfer"}
    /\ Len(results["transfer"].losses) = NumRuns
    /\ results["transfer"].losses[NumRuns][NumEpochs].origin.pass = "finetune"

====
